---- MODULE Spec2Model ----
(***************************************************************************)
(* Event-ticketing backend (src/main.py): the request handlers of the      *)
(* FastAPI application over a document store.  Handlers are plain `def`    *)
(* functions, which FastAPI runs on a thread pool, so requests interleave   *)
(* at every store access.  Each action below is one store access of one    *)
(* handler together with the local computation that follows it.            *)
(***************************************************************************)
EXTENDS Integers, Sequences, FiniteSets, TLC

\* Documents the "attendee" collection may hold.
MaxAttendees == 2

\* Ids the "event", "tickettype" and "order" collections hand out before the
\* model stops inserting into them.
EventIds == {1, 2}
TicketTypeIds == {1}
OrderIds == {1, 2}

\* Worker threads serving requests.
Procs == {1, 2}

\* Values secrets.token_urlsafe(16) can return (main.py:175); nothing in the
\* code compares a fresh token with the stored ones.
Tokens == {"tokA", "tokB"}
NoToken == "none"

\* checked_in_at = None (main.py:184); clock readings start above it.
NoTime == 0

\* Id strings a request may carry: 0 stands for a string bson rejects
\* (ObjectId.is_valid is false), n >= 1 for str(ObjectId) of the n-th
\* document inserted into a collection.
IdStrings == {0, 1, 2}
\* OrderIn.event_id is a plain str that is stored, never parsed (main.py:97).
OrderEventIds == {1}
\* TicketTypeIn.quantity_total: int, OrderIn.quantity: int -- no range is
\* declared on the request models (main.py:93, main.py:101).
QuantityTotals == {-1, 0, 1, 2}
Quantities == {-1, 0, 1, 2}
Prices == {50}
\* Readings of datetime.now(timezone.utc); the clock never runs backwards.
Times == {1, 2}

VARIABLES
    event,        \* collection "event": sequence of documents, _id = index
    tickettype,   \* collection "tickettype"
    order,        \* collection "order"
    attendee,     \* collection "attendee"
    now,          \* the wall clock read by datetime.now
    pc,           \* per thread: position inside its handler ("idle": none running)
    req,          \* per thread: the payload of the request being handled
    tt,           \* per thread: create_order's local tt (the document read)
    order_id,     \* per thread: create_order's local order_id
    attendees,    \* per thread: create_order's local attendees list
    att_id,       \* per thread: check_in's local att["_id"]
    returned,     \* the HTTP response sent by the latest step, if any, with its
                  \* request and the ticket type it read
    okQuantity,   \* history: per ticket type id, sum of quantity over 200 orders
    firstAt       \* history: per token, the checked_in_at written by the first
                  \* check_in on it that answered "checked_in" (NoTime: none yet)

store == <<event, tickettype, order, attendee>>
locals == <<tt, order_id, attendees, att_id>>
vars == <<event, tickettype, order, attendee, now, pc, req, tt,
          order_id, attendees, att_id, returned, okQuantity, firstAt>>

-----------------------------------------------------------------------------
\* Helpers

\* bson.ObjectId.is_valid / ObjectId(str): raises InvalidId on a malformed
\* string, otherwise the id the string denotes.
ObjectIdIsValid(s) == s >= 1
ObjectId(s) == s

\* create_document(collection_name, data): the document is inserted and its
\* new id returned; ids are handed out in insertion order.
create_document(coll, doc) == Append(coll, doc)
inserted_id(coll) == Len(coll) + 1

\* find_one({"_id": oid}) on a collection: the document's index, 0 for None.
FindById(coll, oid) == IF oid \in DOMAIN coll THEN oid ELSE 0

\* find_one({"qr_token": t}): the first matching document in natural order.
FindAttendeeIgnoringFilter(t) == IF Len(attendee) > 0 THEN 1 ELSE 0
FindAttendee(t) ==
    LET hits == {i \in DOMAIN attendee : attendee[i].qr_token = t}
    IN  IF hits = {} THEN 0 ELSE CHOOSE i \in hits : \A j \in hits : i <= j

NoTicket == [id |-> 0, event_id |-> 0, price |-> 0,
             quantity_total |-> 0, quantity_sold |-> 0]

NoReq == [op |-> "none", event_id |-> 0, ticket_type_id |-> 0,
          quantity |-> 0, quantity_total |-> 0, qr_token |-> NoToken]

NoResp == [code |-> 0, status |-> "none", id |-> 0, order_id |-> 0,
           total_amount |-> 0, attendees |-> <<>>, checked_in_at |-> NoTime]

HTTPException(code, detail) == [NoResp EXCEPT !.code = code, !.status = detail]

\* remaining = int(quantity_total) - int(quantity_sold)
RemainingIgnoringSold(t) == t.quantity_total
Remaining(t) == t.quantity_total - t.quantity_sold

\* if att.get("checked_in")
AlreadyCheckedInNever(a) == FALSE
AlreadyCheckedIn(a) == a.checked_in

\* update_one(..., {"$set": {"checked_in": True, "checked_in_at": t}})
SetCheckedInReplacingDocument(a, t) ==
    [a EXCEPT !.checked_in = TRUE, !.checked_in_at = t, !.qr_token = NoToken]
SetCheckedInWithoutTimestamp(a, t) == [a EXCEPT !.checked_in = TRUE]
SetCheckedIn(a, t) == [a EXCEPT !.checked_in = TRUE, !.checked_in_at = t]

\* A request arrives at an idle worker thread.  The threads are
\* interchangeable; the pool is taken to pick the lowest idle one.
Begin(p) == pc[p] = "idle" /\ \A q \in Procs : q < p => pc[q] # "idle"


\* check_in answers "checked_in" on token k, having written checked_in_at = t.
Established(k, t) == firstAt' = [firstAt EXCEPT ![k] = IF @ = NoTime THEN t ELSE @]
history == <<firstAt>>

NoReturn == [req |-> NoReq, tt |-> NoTicket, resp |-> NoResp]

\* The handler returns (or raises) without having left its first step.
ReturnAtOnce(rq, read, r) ==
    /\ returned' = [req |-> rq, tt |-> read, resp |-> r]
    /\ UNCHANGED <<pc, req, locals>>

\* The handler of thread p returns r; its locals go out of scope.
Return(p, r) ==
    /\ returned' = [req |-> req[p], tt |-> tt[p], resp |-> r]
    /\ pc' = [pc EXCEPT ![p] = "idle"]
    /\ req' = [req EXCEPT ![p] = NoReq]
    /\ tt' = [tt EXCEPT ![p] = NoTicket]
    /\ order_id' = [order_id EXCEPT ![p] = 0]
    /\ attendees' = [attendees EXCEPT ![p] = <<>>]
    /\ att_id' = [att_id EXCEPT ![p] = 0]

-----------------------------------------------------------------------------
Init ==
    /\ event = <<>>
    /\ tickettype = <<>>
    /\ order = <<>>
    /\ attendee = <<>>
    /\ now = 1
    /\ pc = [p \in Procs |-> "idle"]
    /\ req = [p \in Procs |-> NoReq]
    /\ tt = [p \in Procs |-> NoTicket]
    /\ order_id = [p \in Procs |-> 0]
    /\ attendees = [p \in Procs |-> <<>>]
    /\ att_id = [p \in Procs |-> 0]
    /\ returned = NoReturn
    /\ okQuantity = <<>>
    /\ firstAt = [k \in Tokens |-> NoTime]

\* POST /api/events: one insert.
create_event(p) ==
    /\ Begin(p)
    /\ inserted_id(event) \in EventIds
    /\ event' = create_document(event,
            [title |-> "t", currency |-> "USD", status |-> "draft"])
    /\ ReturnAtOnce([NoReq EXCEPT !.op = "event"], NoTicket,
                    [NoResp EXCEPT !.code = 200, !.id = inserted_id(event)])
    /\ UNCHANGED <<tickettype, order, attendee, now, okQuantity, history>>

\* POST /api/tickets: find_one on "event", then one insert.  Events are never
\* deleted or rewritten, so the read and the insert are taken as one step.
create_ticket_type(p) ==
    /\ Begin(p)
    /\ \E eid \in IdStrings :
        LET payload == [NoReq EXCEPT !.op = "ticket", !.event_id = eid]
        IN  IF ~ObjectIdIsValid(eid)
              THEN /\ ReturnAtOnce(payload, NoTicket, HTTPException(500, "InvalidId"))
                   /\ UNCHANGED <<tickettype, okQuantity>>
              ELSE IF FindById(event, ObjectId(eid)) = 0
              THEN /\ ReturnAtOnce(payload, NoTicket,
                                   HTTPException(404, "Event not found"))
                   /\ UNCHANGED <<tickettype, okQuantity>>
              ELSE /\ inserted_id(tickettype) \in TicketTypeIds
                   /\ \E price \in Prices, total \in QuantityTotals :
                        /\ tickettype' = create_document(tickettype,
                              [event_id |-> eid, price |-> price,
                               quantity_total |-> total, quantity_sold |-> 0])
                        /\ ReturnAtOnce([payload EXCEPT !.quantity_total = total],
                              NoTicket,
                              [NoResp EXCEPT !.code = 200, !.id = inserted_id(tickettype)])
                   /\ okQuantity' = Append(okQuantity, 0)
    /\ UNCHANGED <<event, order, attendee, now, history>>

\* POST /api/orders, lines 150-159: find_one on "tickettype" and the
\* inventory check on the document read.
create_order_lookup(p) ==
    /\ Begin(p)
    /\ \E tid \in IdStrings :
        LET unread == [NoReq EXCEPT !.op = "order", !.ticket_type_id = tid]
        IN  IF ~ObjectIdIsValid(tid)
              THEN ReturnAtOnce(unread, NoTicket, HTTPException(500, "InvalidId"))
              ELSE IF FindById(tickettype, ObjectId(tid)) = 0
              THEN ReturnAtOnce(unread, NoTicket,
                                HTTPException(404, "Ticket type not found"))
              ELSE \E eid \in OrderEventIds, q \in Quantities :
                   LET payload == [unread EXCEPT !.event_id = eid, !.quantity = q]
                       doc == tickettype[ObjectId(tid)]
                       read == [id |-> ObjectId(tid), event_id |-> doc.event_id,
                                price |-> doc.price,
                                quantity_total |-> doc.quantity_total,
                                quantity_sold |-> doc.quantity_sold]
                   IN  IF q > Remaining(read)
                         THEN ReturnAtOnce(payload, read,
                                  HTTPException(400, "Not enough inventory"))
                         ELSE /\ pc' = [pc EXCEPT ![p] = "insert_order"]
                              /\ req' = [req EXCEPT ![p] = payload]
                              /\ tt' = [tt EXCEPT ![p] = read]
                              /\ returned' = NoReturn
                              /\ UNCHANGED <<order_id, attendees, att_id>>
    /\ UNCHANGED <<store, now, okQuantity, history>>

\* total_amount = float(price) * quantity
TotalAmount(p) == tt[p].price * req[p].quantity

\* lines 161-170: the Order document is inserted.
create_order_insert(p) ==
    /\ pc[p] = "insert_order"
    /\ inserted_id(order) \in OrderIds
    /\ order' = create_document(order,
            [event_id |-> req[p].event_id, ticket_type_id |-> req[p].ticket_type_id,
             quantity |-> req[p].quantity, total_amount |-> TotalAmount(p),
             status |-> "paid"])
    /\ order_id' = [order_id EXCEPT ![p] = inserted_id(order)]
    /\ pc' = [pc EXCEPT ![p] = "attendees"]
    /\ returned' = NoReturn
    /\ UNCHANGED <<event, tickettype, attendee, now, req, tt, attendees,
                   att_id, okQuantity, history>>

\* lines 176-185: the Attendee document of one unit of the order; order_id is
\* the id create_document returned for the Order.
att_doc_with_fresh_order_id(p, qr_token) ==
    [event_id |-> req[p].event_id, order_id |-> inserted_id(order),
     ticket_type_id |-> req[p].ticket_type_id, qr_token |-> qr_token,
     checked_in |-> FALSE, checked_in_at |-> NoTime]
att_doc(p, qr_token) ==
    [event_id |-> req[p].event_id, order_id |-> order_id[p],
     ticket_type_id |-> req[p].ticket_type_id, qr_token |-> qr_token,
     checked_in |-> FALSE, checked_in_at |-> NoTime]

\* lines 174-187: one pass of the loop, for i in range(quantity).
create_order_attendee(p) ==
    /\ pc[p] = "attendees"
    /\ Len(attendees[p]) < req[p].quantity
    /\ Len(attendee) < MaxAttendees
    /\ \E qr_token \in Tokens :
        LET doc == att_doc(p, qr_token)
            aid == inserted_id(attendee)
        IN  /\ attendee' = create_document(attendee, doc)
            /\ attendees' = [attendees EXCEPT ![p] =
                    Append(@, [id |-> aid, order_id |-> doc.order_id,
                               qr_token |-> qr_token,
                               checked_in |-> doc.checked_in,
                               checked_in_at |-> doc.checked_in_at])]
    /\ returned' = NoReturn
    /\ UNCHANGED <<event, tickettype, order, now, pc, req, tt, order_id,
                   att_id, okQuantity, history>>

\* update_one({"_id": ...}, {"$inc": {"quantity_sold": quantity}}): the store
\* adds to the field's current value in one step; no document matched is a no-op.
IncQuantitySoldFromRead(p) ==
    LET tid == ObjectId(req[p].ticket_type_id)
    IN  IF tid \in DOMAIN tickettype
          THEN [tickettype EXCEPT ![tid].quantity_sold =
                    tt[p].quantity_sold + req[p].quantity]
          ELSE tickettype
IncQuantitySoldTwice(p) ==
    LET tid == ObjectId(req[p].ticket_type_id)
    IN  IF tid \in DOMAIN tickettype
          THEN [tickettype EXCEPT ![tid].quantity_sold = @ + 2 * req[p].quantity]
          ELSE tickettype
IncQuantitySold(p) ==
    LET tid == ObjectId(req[p].ticket_type_id)
    IN  IF tid \in DOMAIN tickettype
          THEN [tickettype EXCEPT ![tid].quantity_sold = @ + req[p].quantity]
          ELSE tickettype

\* lines 174, 189-195: the loop is over, $inc, and the 200 response.
create_order_inc(p) ==
    /\ pc[p] = "attendees"
    /\ Len(attendees[p]) >= req[p].quantity
    /\ tickettype' = IncQuantitySold(p)
    /\ okQuantity' = [okQuantity EXCEPT ![ObjectId(req[p].ticket_type_id)] =
                            @ + req[p].quantity]
    /\ Return(p, [NoResp EXCEPT !.code = 200, !.order_id = order_id[p],
                                !.total_amount = TotalAmount(p),
                                !.attendees = attendees[p]])
    /\ UNCHANGED <<event, order, attendee, now, history>>

\* POST /api/checkin/{qr_token}, lines 213-217: the lookup and both early exits.
check_in_lookup(p) ==
    /\ Begin(p)
    /\ \E qr_token \in Tokens :
        LET a == FindAttendee(qr_token)
            payload == [NoReq EXCEPT !.op = "checkin", !.qr_token = qr_token]
        IN  IF a = 0
              THEN /\ ReturnAtOnce(payload, NoTicket,
                                   HTTPException(404, "Attendee not found"))
                   /\ UNCHANGED history
              ELSE IF AlreadyCheckedIn(attendee[a])
              THEN /\ ReturnAtOnce(payload, NoTicket,
                         [NoResp EXCEPT !.code = 200,
                             !.status = "already_checked_in",
                             !.checked_in_at = attendee[a].checked_in_at])
                   /\ UNCHANGED history
              ELSE /\ pc' = [pc EXCEPT ![p] = "checkin_update"]
                   /\ req' = [req EXCEPT ![p] = payload]
                   /\ att_id' = [att_id EXCEPT ![p] = a]
                   /\ returned' = NoReturn
                   /\ UNCHANGED <<tt, order_id, attendees, history>>
    /\ UNCHANGED <<store, now, okQuantity>>

\* lines 219-224: update_one by _id with datetime.now, and the response.
check_in_update(p) ==
    /\ pc[p] = "checkin_update"
    /\ \E t \in {u \in Times : u >= now} :
        /\ now' = t
        /\ attendee' = [attendee EXCEPT ![att_id[p]] = SetCheckedIn(@, t)]
        /\ Established(req[p].qr_token, t)
    /\ Return(p, [NoResp EXCEPT !.code = 200, !.status = "checked_in",
                                !.id = att_id[p]])
    /\ UNCHANGED <<event, tickettype, order, okQuantity>>

Step(p) ==
    \/ create_event(p)
    \/ create_ticket_type(p)
    \/ create_order_lookup(p)
    \/ create_order_insert(p)
    \/ create_order_attendee(p)
    \/ create_order_inc(p)
    \/ check_in_lookup(p)
    \/ check_in_update(p)

\* Requests served concurrently by the thread pool.
Next == \E p \in Procs : Step(p)
Spec == Init /\ [][Next]_vars

\* Requests that do not overlap: one begins only after the others returned.
SeqNext == \E p \in Procs : (\A q \in Procs \ {p} : pc[q] = "idle") /\ Step(p)
SeqSpec == Init /\ [][SeqNext]_vars

-----------------------------------------------------------------------------
\* Properties

OrderInFlight(p) == pc[p] \in {"insert_order", "attendees"}
NoOrderInFlight == \A p \in Procs : ~OrderInFlight(p)
TokenIssued(k) == \E a \in DOMAIN attendee : attendee[a].qr_token = k
AttendeesOf(oid) == {a \in DOMAIN attendee : attendee[a].order_id = oid}

\* C1: in every reachable state, under any interleaving of place_order
\* requests, every ticket type has quantity_sold <= quantity_total.  Stated
\* here for the ticket types created with quantity_total >= 0 only, so that
\* a violation is an oversell and not a ticket type born with a negative total.
C1_SoldWithinTotal ==
    \A t \in DOMAIN tickettype :
        tickettype[t].quantity_total >= 0
            => tickettype[t].quantity_sold <= tickettype[t].quantity_total

\* C2: a place_order whose quantity exceeds quantity_total - quantity_sold of
\* the ticket type as its lookup reads it answers 400 in that step and leaves
\* every collection as it was; no such request goes on to its inserts.
C2_InsufficientInventoryRejected ==
    [][ /\ ( /\ pc' = pc
             /\ returned'.req.op = "order"
             /\ returned'.req.ticket_type_id \in DOMAIN tickettype
             /\ returned'.req.quantity >
                    tickettype[returned'.req.ticket_type_id].quantity_total
                    - tickettype[returned'.req.ticket_type_id].quantity_sold )
            => (returned'.resp.code = 400 /\ UNCHANGED store)
        /\ \A p \in Procs :
            (pc[p] = "idle" /\ pc'[p] = "insert_order")
                => /\ UNCHANGED store
                   /\ req'[p].quantity <=
                        tickettype[req'[p].ticket_type_id].quantity_total
                        - tickettype[req'[p].ticket_type_id].quantity_sold
      ]_vars

\* A place_order was refused with 400 on a ticket type that had sold some.
C2_Witness ==
    /\ returned.req.op = "order"
    /\ returned.resp.code = 400
    /\ returned.tt.quantity_sold > 0

\* C3: whenever no place_order is in flight, quantity_sold of every ticket
\* type is the sum of the quantities of the place_order requests on it that
\* answered 200: no increment is lost or counted twice.
C3_SoldIsSumOfReturnedOrders ==
    NoOrderInFlight =>
        \A t \in DOMAIN tickettype : tickettype[t].quantity_sold = okQuantity[t]

\* Two orders of one ticket each on the same ticket type have both returned.
C3_Witness ==
    /\ NoOrderInFlight
    /\ Len(order) = 2
    /\ \A o \in DOMAIN order : order[o].quantity = 1
    /\ \E t \in DOMAIN tickettype : okQuantity[t] = 2

\* C4: every place_order that answers 200 returns as many attendees as its
\* quantity, and that many Attendee documents carry its order_id, each
\* returned with checked_in = false and checked_in_at = null.
C4_AttendeesMatchQuantity ==
    (returned.req.op = "order" /\ returned.resp.code = 200) =>
        /\ Len(returned.resp.attendees) = returned.req.quantity
        /\ Cardinality(AttendeesOf(returned.resp.order_id)) = returned.req.quantity
        /\ \A i \in DOMAIN returned.resp.attendees :
            /\ returned.resp.attendees[i].checked_in = FALSE
            /\ returned.resp.attendees[i].checked_in_at = NoTime

\* C5: when requests do not overlap, the first check_in on an issued token
\* answers "checked_in" and writes checked_in_at; every later one answers
\* "already_checked_in", reports the checked_in_at the first one wrote, and
\* changes no stored field.
C5_CheckInTwice ==
    [][ (returned'.req.op = "checkin" /\ returned'.resp.code = 200) =>
            LET k == returned'.req.qr_token
            IN  IF firstAt[k] = NoTime
                  THEN /\ returned'.resp.status = "checked_in"
                       /\ firstAt'[k] # NoTime
                       /\ attendee'[returned'.resp.id].checked_in_at = firstAt'[k]
                  ELSE /\ returned'.resp.status = "already_checked_in"
                       /\ returned'.resp.checked_in_at = firstAt[k]
                       /\ UNCHANGED store
      ]_vars

\* A second check_in on a token has answered.
C5_Witness ==
    /\ returned.req.op = "checkin"
    /\ returned.resp.status = "already_checked_in"
    /\ returned.resp.checked_in_at = firstAt[returned.req.qr_token]

\* C6: check_in with a token no Attendee carries answers 404 in its lookup
\* step and leaves every collection as it was; only a token some Attendee
\* carries takes check_in on to its update.
C6_UnknownTokenNotFound ==
    [][ /\ ( /\ pc' = pc
             /\ returned'.req.op = "checkin"
             /\ ~TokenIssued(returned'.req.qr_token) )
            => (returned'.resp.code = 404 /\ UNCHANGED store)
        /\ \A p \in Procs :
            (pc[p] = "idle" /\ pc'[p] = "checkin_update")
                => TokenIssued(req'[p].qr_token)
      ]_vars

\* An unknown token was refused while other tokens were issued.
C6_Witness ==
    /\ returned.req.op = "checkin"
    /\ returned.resp.code = 404
    /\ Len(attendee) >= 1

\* C7: a place_order with quantity < 1 is rejected before any store access:
\* its handler never runs past validation, it never answers 200, and no Order
\* with quantity < 1 is stored.
C7_QuantityBelowOneRejected ==
    /\ \A p \in Procs : OrderInFlight(p) => req[p].quantity >= 1
    /\ \A o \in DOMAIN order : order[o].quantity >= 1
    /\ (returned.req.op = "order" /\ returned.resp.code = 200)
            => returned.req.quantity >= 1

\* C8: when place_order requests do not overlap, quantity_sold never exceeds
\* quantity_total, and a place_order with quantity >= 1 that reads
\* quantity_sold = quantity_total answers 400.
C8_SequentialNoOversell ==
    /\ \A t \in DOMAIN tickettype :
            tickettype[t].quantity_sold <= tickettype[t].quantity_total
    /\ ( /\ returned.req.op = "order"
         /\ returned.tt.id # 0
         /\ returned.tt.quantity_sold = returned.tt.quantity_total
         /\ returned.req.quantity >= 1 )
            => returned.resp.code = 400

C10_TicketTypeNeedsEvent ==
    /\ (returned.req.op = "ticket" /\ returned.req.event_id \notin DOMAIN event)
            => returned.resp.code = 404
    /\ (returned.req.op = "ticket" /\ returned.resp.code = 200)
            => /\ returned.resp.id \in DOMAIN tickettype
               /\ tickettype[returned.resp.id].event_id \in DOMAIN event
               /\ tickettype[returned.resp.id].quantity_sold = 0
    /\ \A t \in DOMAIN tickettype : tickettype[t].event_id \in DOMAIN event

\* C11: two overlapping place_order requests on one ticket type can both read
\* it and pass the inventory check before either increments, both answer 200,
\* and leave quantity_sold > quantity_total.  The universal half: every
\* place_order that reaches its increment asked for no more than the
\* remaining inventory it read, and a step takes quantity_sold from within
\* quantity_total to above it only as the increment of a request whose read of
\* quantity_sold is stale by then (another request incremented in between).
C11_OversellOnlyFromStaleRead ==
    [][ /\ \A p \in Procs :
            OrderInFlight(p) =>
                req[p].quantity <= tt[p].quantity_total - tt[p].quantity_sold
        /\ \A t \in DOMAIN tickettype :
            ( /\ tickettype[t].quantity_sold <= tickettype[t].quantity_total
              /\ tickettype'[t].quantity_sold > tickettype'[t].quantity_total )
                => \E p \in Procs :
                    /\ pc[p] = "attendees" /\ pc'[p] = "idle"
                    /\ tt[p].id = t
                    /\ tt[p].quantity_sold # tickettype[t].quantity_sold
      ]_vars

\* The second of two orders on one ticket type has just answered 200: both
\* asked for at least one ticket and no more than quantity_total, the one that
\* returned last had passed the check on the quantity_sold it read, and the
\* ticket type is oversold.
C11_Witness ==
    /\ returned.req.op = "order"
    /\ returned.resp.code = 200
    /\ returned.req.quantity >= 1
    /\ returned.req.quantity <=
            returned.tt.quantity_total - returned.tt.quantity_sold
    /\ Len(order) = 2
    /\ \A o \in DOMAIN order :
            /\ order[o].ticket_type_id = returned.tt.id
            /\ order[o].quantity >= 1
            /\ order[o].quantity <= returned.tt.quantity_total
    /\ NoOrderInFlight
    /\ okQuantity[returned.tt.id] = order[1].quantity + order[2].quantity
    /\ tickettype[returned.tt.id].quantity_sold
            > tickettype[returned.tt.id].quantity_total

\* C12: under any interleaving of check_in requests on one qr_token the
\* transition fires once: checked_in_at, once set, never changes, and at most
\* one request answers "checked_in" (none does after a first one has).
C12_CheckInFiresOnce ==
    [][ /\ \A a \in DOMAIN attendee :
            attendee[a].checked_in_at # NoTime
                => attendee'[a].checked_in_at = attendee[a].checked_in_at
        /\ (returned'.req.op = "checkin" /\ returned'.resp.status = "checked_in")
                => firstAt[returned'.req.qr_token] = NoTime
      ]_vars

\* C13: quantity_sold of every ticket type never decreases and is never
\* negative, whatever requests the service accepts.
C13_SoldNeverDecreases ==
    [][ \A t \in DOMAIN tickettype :
            /\ tickettype'[t].quantity_sold >= tickettype[t].quantity_sold
            /\ tickettype'[t].quantity_sold >= 0 ]_vars

\* C14: under any interleaving of check_in requests, an Attendee is inserted
\* with checked_in = false, checked_in once true stays true in every later
\* state, and whenever checked_in is true checked_in_at is not null.
C14_CheckedInMonotonic ==
    [][ \A a \in DOMAIN attendee' :
            /\ a \notin DOMAIN attendee => ~attendee'[a].checked_in
            /\ (a \in DOMAIN attendee /\ attendee[a].checked_in)
                    => attendee'[a].checked_in
            /\ attendee'[a].checked_in => attendee'[a].checked_in_at # NoTime
      ]_vars

\* Two overlapping check_in requests have both updated one attendee (the
\* stored checked_in_at is no longer the first one written) and it is still
\* checked in.
C14_Witness ==
    \E a \in DOMAIN attendee :
        /\ attendee[a].checked_in
        /\ firstAt[attendee[a].qr_token] # NoTime
        /\ attendee[a].checked_in_at # firstAt[attendee[a].qr_token]
        /\ FindAttendee(attendee[a].qr_token) = a

\* C15: whenever no place_order is in flight (none fails part-way here), for
\* every ticket type quantity_sold equals the number of Attendee documents
\* whose ticket_type_id names it.
C15_SoldEqualsAttendeeCount ==
    NoOrderInFlight =>
        \A t \in DOMAIN tickettype :
            tickettype[t].quantity_sold =
                Cardinality({a \in DOMAIN attendee :
                                ObjectId(attendee[a].ticket_type_id) = t})

\* C16: every stored Order and every stored Attendee carries the event_id of
\* the ticket type its ticket_type_id names.  Stated here for the orders of
\* quantity >= 1 and their attendees only, so that a violation does not rest
\* on an order the handler should have refused.
C16_BelongsToTicketTypeEvent ==
    /\ \A o \in DOMAIN order :
            order[o].quantity >= 1 =>
                order[o].event_id =
                    tickettype[ObjectId(order[o].ticket_type_id)].event_id
    /\ \A a \in DOMAIN attendee :
            attendee[a].event_id =
                tickettype[ObjectId(attendee[a].ticket_type_id)].event_id

\* C17: in every reachable state, place_order requests in flight included,
\* every Attendee names an Order that is already stored and carries that
\* Order's event_id and ticket_type_id.
C17_AttendeeHasItsOrder ==
    \A a \in DOMAIN attendee :
        /\ attendee[a].order_id \in DOMAIN order
        /\ attendee[a].event_id = order[attendee[a].order_id].event_id
        /\ attendee[a].ticket_type_id = order[attendee[a].order_id].ticket_type_id

\* Two place_order requests are in flight; one has inserted the first of its
\* two attendees, the other has inserted its Order and no attendee yet.
C17_Witness ==
    \E p, q \in Procs :
        /\ pc[p] = "attendees" /\ pc[q] = "attendees"
        /\ req[p].quantity = 2
        /\ Len(attendees[p]) = 1
        /\ req[q].quantity >= 1
        /\ Len(attendees[q]) = 0
        /\ order_id[p] # order_id[q]
        /\ AttendeesOf(order_id[p]) # {}

====
